---- MODULE Spec2Model ----
(***************************************************************************)
(* BigQuery usage-log pipeline of datahub's metadata-ingestion:            *)
(*   log entries -> _parse_bigquery_log_entries -> _join_events_by_job_id  *)
(*               -> _aggregate_enriched_read_events -> _make_usage_stat    *)
(* The generators are pulled by one consumer (get_workunits); pc records   *)
(* which generator holds control.                                          *)
(*                                                                         *)
(* Python values: a str is a sequence of one-character strings, None is    *)
(* the sentinel below, a dict or Counter is a sequence of [key, value]     *)
(* records in insertion order, an object is an index into the heap objs.   *)
(***************************************************************************)
EXTENDS Integers, Sequences, FiniteSets, TLC

VARIABLES
    query_log_delay,  \* config.query_log_delay
    bucket_duration,  \* config.bucket_duration
    entries,          \* raw entries the log source has produced so far
    exhausted,        \* the log source has raised StopIteration
    objs,             \* heap of ReadEvent / QueryEvent objects
    event,            \* local variable event of _parse_bigquery_log_entries (0: unbound)
    parsed,           \* objects yielded by the parser, in order
    failures,         \* report.failures
    query_jobs,       \* the LRUCache of _join_events_by_job_id, LRU first
    uses,             \* history of the LRUCache: every write and read of a key, in order
    cache,            \* the deque of delayed_iter
    inflight,         \* object yielded by delayed_iter, not yet consumed (0: none)
    emitted,          \* events yielded by _join_events_by_job_id, as they were when yielded
    warnings,         \* report.warnings
    datasets,         \* local datasets of _aggregate_enriched_read_events
    dropped_table,    \* report.dropped_table
    consumed,         \* number of emitted events the aggregator has finished with
    error,            \* exception that ended the run ("none" while running)
    pc,               \* which stage holds control
    top_n_queries,    \* config.top_n_queries
    workunits,        \* work units get_workunits has yielded
    workunits_produced,  \* report.workunits_produced
    run,              \* 1, and 2 once the aggregator and emitter are run again
    earlier,          \* the work units of the run before
    now,              \* datetime.now(tz=timezone.utc) when the config is built
    given,            \* start_time and end_time of the config dict: <<>> or <<t>>
    start_time,       \* config.start_time
    end_time,         \* config.end_time
    qs_pc,            \* quickstart: the statement of the wait loop that runs next
    clock,            \* quickstart: seconds gone by since start_time was taken
    waited,           \* quickstart: the last datetime.now() - start_time it computed
    up_attempts,      \* quickstart: local up_attempts
    issues,           \* quickstart: local issues
    checked,          \* quickstart: the health check has run in this iteration
    log_file,         \* quickstart: what was written to the log file
    messages,         \* quickstart: the header, issue and closing lines printed
    exit_status       \* quickstart: <<>> while running, <<n>> once the command ended

vars == <<query_log_delay, bucket_duration, entries, exhausted, objs, event,
          parsed, failures, query_jobs, uses, cache, inflight, emitted,
          warnings, datasets, dropped_table, consumed, error, pc,
          top_n_queries, workunits, workunits_produced,
          run, earlier, now, given, start_time, end_time,
          qs_pc, clock, waited, up_attempts, issues, checked, log_file, messages,
          exit_status>>

quick_vars == <<qs_pc, clock, waited, up_attempts, issues, checked, log_file, messages,
                exit_status>>

\* what the steps of one run of get_workunits leave alone
other_vars == <<run, earlier, now, given, start_time, end_time, quick_vars>>

pipeline_vars == <<query_log_delay, bucket_duration, entries, exhausted, objs, event,
                   parsed, failures, query_jobs, uses, cache, inflight, emitted,
                   warnings, datasets, dropped_table, consumed, error, pc,
                   top_n_queries, workunits, workunits_produced,
                   run, earlier, now, given, start_time, end_time>>

-----------------------------------------------------------------------------
(* Bounds of the model *)

MaxJoinEntries == 5
MaxAggEntries == 4
MaxParseEntries == 5
MaxDelay == 2
MaxNormEntries == 1
MaxEmitEntries == 5
MaxBucketEntries == 1
MaxRerunEntries == 4
MaxScenarioEntries == 4
MaxWindowEntries == 2

-----------------------------------------------------------------------------
(* Python values *)

\* top_n_queries: Optional[PositiveInt] = 10; NoLimit stands for None
DefaultTopN == 10
NoLimit == 0

None == <<"None">>

Truthy(s) == s # None /\ s # <<>>

Last(s) == s[Len(s)]

Contains(s, c) == \E i \in 1..Len(s) : s[i] = c

Indices(s, Test(_)) == {i \in 1..Len(s) : Test(s[i])}

\* dict / Counter in insertion order
DictHas(d, k) == \E i \in 1..Len(d) : d[i].key = k

DictGet(d, k) == d[CHOOSE i \in 1..Len(d) : d[i].key = k].value

DictPut(d, k, v) ==
    IF DictHas(d, k)
    THEN [i \in 1..Len(d) |-> IF d[i].key = k THEN [key |-> k, value |-> v] ELSE d[i]]
    ELSE Append(d, [key |-> k, value |-> v])

CounterGet(c, k) == IF DictHas(c, k) THEN DictGet(c, k) ELSE 0

CounterInc(c, k) == DictPut(c, k, CounterGet(c, k) + 1)

-----------------------------------------------------------------------------
(* get_time_bucket *)

HOUR == "HOUR"
DAY == "DAY"

get_time_bucket_Round(original, bucketing) ==
    IF bucketing = HOUR
    THEN [original EXCEPT !.hour = IF original.minute >= 30 THEN @ + 1 ELSE @,
                          !.minute = 0, !.second = 0, !.microsecond = 0]
    ELSE [original EXCEPT !.date = IF original.hour >= 12 THEN @ + 1 ELSE @,
                          !.hour = 0, !.minute = 0, !.second = 0, !.microsecond = 0]

get_time_bucket(original, bucketing) ==
    IF bucketing = HOUR
    THEN [original EXCEPT !.minute = 0, !.second = 0, !.microsecond = 0]
    ELSE [original EXCEPT !.hour = 0, !.minute = 0, !.second = 0, !.microsecond = 0]

get_bucket_duration_delta_Swapped(bucketing) ==
    IF bucketing = HOUR THEN [days |-> 1, hours |-> 0] ELSE [days |-> 0, hours |-> 1]

\* a timedelta of one hour or one day
get_bucket_duration_delta(bucketing) ==
    IF bucketing = HOUR THEN [days |-> 0, hours |-> 1] ELSE [days |-> 1, hours |-> 0]

\* datetime - timedelta
TimeMinus(ts, delta) ==
    [ts EXCEPT !.date = @ - delta.days - (IF ts.hour < delta.hours THEN 1 ELSE 0),
               !.hour = IF ts.hour < delta.hours THEN @ + 24 - delta.hours
                        ELSE @ - delta.hours]

\* int(datetime.timestamp()), in seconds
EpochSeconds(ts) == ((ts.date * 24 + ts.hour) * 60 + ts.minute) * 60 + ts.second

\* a <= b for datetimes
TimeLeq(a, b) ==
    \/ EpochSeconds(a) < EpochSeconds(b)
    \/ EpochSeconds(a) = EpochSeconds(b) /\ a.microsecond <= b.microsecond

\* the datetime that strftime(BQ_DATETIME_FORMAT) writes, which has no
\* fraction of a second
BQ_DATETIME_FORMAT(ts) == [ts EXCEPT !.microsecond = 0]

\* BQ_FILTER_RULE_TEMPLATE: timestamp >= "{start_time}" AND timestamp <= "{end_time}"
FilterAdmits(timestamp, start, end) ==
    /\ TimeLeq(BQ_DATETIME_FORMAT(start), timestamp)
    /\ TimeLeq(timestamp, BQ_DATETIME_FORMAT(end))

\* validator default_end_time: v or get_time_bucket(now, bucket_duration)
default_end_time(v, current, bucketing) ==
    IF v # <<>> THEN v[1] ELSE get_time_bucket(current, bucketing)

\* validator default_start_time: v or end_time - get_bucket_duration_delta
default_start_time(v, end, bucketing) ==
    IF v # <<>> THEN v[1] ELSE TimeMinus(end, get_bucket_duration_delta(bucketing))

-----------------------------------------------------------------------------
(* BigQueryTableRef *)

Digits == {"0", "1", "2", "3", "4", "5", "6", "7", "8", "9"}

TableRef(project, dataset, table) ==
    [project |-> project, dataset |-> dataset, table |-> table]

\* the parts of ref.split("/")
from_string_name_ok(parts) ==
    /\ Len(parts) >= 6
    /\ parts[1] = "projects"
    /\ parts[3] = "datasets"
    /\ parts[5] = "tables"

\* the exception from_string_name ends with, "none" when it returns
from_string_name_error(parts) ==
    IF parts[1] # "projects" THEN "ValueError"
    ELSE IF Len(parts) < 3 THEN "IndexError"
    ELSE IF parts[3] # "datasets" THEN "ValueError"
    ELSE IF Len(parts) < 5 THEN "IndexError"
    ELSE IF parts[5] # "tables" THEN "ValueError"
    ELSE IF Len(parts) < 6 THEN "IndexError"
    ELSE "none"

from_string_name(parts) == TableRef(parts[2], parts[4], parts[6])

is_anonymous_Never(ref) == FALSE

is_anonymous(ref) == Len(ref.dataset) >= 1 /\ ref.dataset[1] = "_"

PartitionMatches_AnyLength(table) ==
    {m \in {Len(table), Len(table) - 1} \X (4..10) :
        /\ m[1] >= 0
        /\ (m[1] = Len(table) - 1 => Last(table) = "\n")
        /\ m[1] - m[2] - 1 >= 1
        /\ table[m[1] - m[2]] = "_"
        /\ \A i \in (m[1] - m[2] + 1)..m[1] : table[i] \in Digits
        /\ \A i \in 1..(m[1] - m[2] - 1) : table[i] # "\n"}

\* PARTITIONED_TABLE_REGEX.match(table): the end position e of the match
\* ($ also matches before a final newline) and the length k of the digit group
PartitionMatches(table) ==
    {m \in {Len(table), Len(table) - 1} \X {4, 6, 8, 10} :
        /\ m[1] >= 0
        /\ (m[1] = Len(table) - 1 => Last(table) = "\n")
        /\ m[1] - m[2] - 1 >= 1
        /\ table[m[1] - m[2]] = "_"
        /\ \A i \in (m[1] - m[2] + 1)..m[1] : table[i] \in Digits
        /\ \A i \in 1..(m[1] - m[2] - 1) : table[i] # "\n"}

remove_extras_raises_DollarOnly(ref) == Contains(ref.table, "$")

remove_extras_raises(ref) == Contains(ref.table, "$") \/ Contains(ref.table, "@")

remove_extras(ref) ==
    IF PartitionMatches(ref.table) # {}
    THEN LET m == CHOOSE x \in PartitionMatches(ref.table) : TRUE
         IN TableRef(ref.project, ref.dataset, SubSeq(ref.table, 1, m[1] - m[2] - 1))
    ELSE ref

\* BigQueryTableRef.__str__, as the parts joined by "/"
TableRefStr(ref) ==
    <<"projects", ref.project, "datasets", ref.dataset, "tables", ref.table>>

\* _job_name_ref, as the parts joined by "/"
job_name_ref(project, jobId) == <<"projects", project, "jobs", jobId>>

-----------------------------------------------------------------------------
(* ReadEvent and QueryEvent *)

\* entry.payload["metadata"]["tableDataRead"] exists
ReadEvent_can_parse_entry(entry) == "tableDataRead" \in entry.blocks

\* entry.payload["serviceData"]["jobCompletedEvent"]["job"] exists
QueryEvent_can_parse_entry(entry) == "jobCompletedEvent" \in entry.blocks

\* the payload keys ReadEvent.from_entry subscripts
ReadEvent_needs(entry) ==
    {"principalEmail", "resourceName", "fields", "reason"}
    \cup (IF entry.reason = "JOB" THEN {"jobName"} ELSE {})

\* the payload keys QueryEvent.from_entry subscripts
QueryEvent_needs ==
    {"principalEmail", "jobName", "query", "destinationTable", "jobStatistics"}

ReadEvent_from_entry(entry) ==
    [type |-> "ReadEvent",
     timestamp |-> entry.timestamp,
     actor_email |-> entry.principalEmail,
     resource |-> from_string_name(entry.resourceName),
     fieldsRead |-> entry.fields,
     readReason |-> entry.reason,
     jobName |-> IF entry.reason = "JOB" THEN entry.readJobName ELSE None,
     query |-> None]

\* destinationTable and referencedTables are decoded but never read downstream
QueryEvent_from_entry(entry) ==
    [type |-> "QueryEvent",
     timestamp |-> entry.timestamp,
     actor_email |-> entry.principalEmail,
     query |-> entry.query,
     jobName |-> job_name_ref(entry.jobProject, entry.jobId)]

-----------------------------------------------------------------------------
(* cachetools.LRUCache(maxsize = 2 * query_log_delay), least recently used first *)

LRUMaxSize_Half(delay) == delay

LRUMaxSize_PlusOne(delay) == 2 * delay + 1

LRUMaxSize(delay) == 2 * delay

MoveToEnd(c, k) ==
    SelectSeq(c, LAMBDA e : e.key # k) \o SelectSeq(c, LAMBDA e : e.key = k)

RECURSIVE MakeRoom(_, _)
MakeRoom(c, maxsize) ==
    IF Len(c) > 0 /\ Len(c) + 1 > maxsize THEN MakeRoom(Tail(c), maxsize) ELSE c

LRUSetItem_KeepFirst(c, k, v, maxsize) ==
    IF DictHas(c, k)
    THEN MoveToEnd(c, k)
    ELSE Append(MakeRoom(c, maxsize), [key |-> k, value |-> v])

\* query_jobs[k] = v
LRUSetItem(c, k, v, maxsize) ==
    IF DictHas(c, k)
    THEN MoveToEnd(DictPut(c, k, v), k)
    ELSE Append(MakeRoom(c, maxsize), [key |-> k, value |-> v])

LRUGetItem_NoTouch(c, k) == c

\* the order of the cache after query_jobs[k] has been read
LRUGetItem(c, k) == MoveToEnd(c, k)

-----------------------------------------------------------------------------
(* report *)

report_failure(fs, key, reason) == Append(fs, [key |-> key, reason |-> reason])

report_warning(ws, key, reason) == Append(ws, [key |-> key, reason |-> reason])

report_dropped(dropped, key) == CounterInc(dropped, key)

JoinWarning == "failed to match table read event with job; try increasing query_log_delay"

-----------------------------------------------------------------------------
(* Initial state: a source constructed from a valid configuration *)

\* quickstart has passed its pre-flight check, pulled the containers and taken
\* start_time
QuickstartEntersLoop ==
    /\ qs_pc = "while"
    /\ clock = 0
    /\ waited = 0
    /\ up_attempts = 0
    /\ issues = <<>>
    /\ checked = FALSE
    /\ log_file = <<>>
    /\ messages = <<>>
    /\ exit_status = <<>>

\* a window given in the config that holds every timestamp of the inputs
WideStart == [date |-> 0, hour |-> 0, minute |-> 0, second |-> 0, microsecond |-> 0]
WideEnd == [date |-> 3, hour |-> 0, minute |-> 0, second |-> 0, microsecond |-> 0]

InitConfigured(delays, durations, limits, nows, starts, ends) ==
    /\ query_log_delay \in delays
    /\ top_n_queries \in limits
    /\ workunits = <<>>
    /\ workunits_produced = 0
    /\ run = 1
    /\ earlier = <<>>
    /\ bucket_duration \in durations
    /\ now \in nows
    /\ given \in [start_time : starts, end_time : ends]
    /\ end_time = default_end_time(given.end_time, now, bucket_duration)
    /\ start_time = default_start_time(given.start_time, end_time, bucket_duration)
    /\ entries = <<>>
    /\ exhausted = FALSE
    /\ objs = <<>>
    /\ event = 0
    /\ parsed = <<>>
    /\ failures = <<>>
    /\ query_jobs = <<>>
    /\ uses = <<>>
    /\ cache = <<>>
    /\ inflight = 0
    /\ emitted = <<>>
    /\ warnings = <<>>
    /\ datasets = <<>>
    /\ dropped_table = <<>>
    /\ consumed = 0
    /\ error = "none"
    /\ pc = "pull"
    /\ QuickstartEntersLoop

InitWith(delays, durations, limits) ==
    InitConfigured(delays, durations, limits, {WideEnd}, {<<WideStart>>}, {<<WideEnd>>})

-----------------------------------------------------------------------------
(* _parse_bigquery_log_entries, one iteration of its loop, and what the     *)
(* generators downstream do with the event it yields before the next entry  *)
(* is pulled: event_processor stores a QueryEvent in query_jobs, or hands a *)
(* ReadEvent to delayed_iter.                                               *)

Parseable(entry) ==
    ReadEvent_can_parse_entry(entry) \/ QueryEvent_can_parse_entry(entry)

\* the heap after the parser has handled the entry
ParsedObjs(entry) ==
    IF ReadEvent_can_parse_entry(entry) THEN Append(objs, ReadEvent_from_entry(entry))
    ELSE IF QueryEvent_can_parse_entry(entry) THEN Append(objs, QueryEvent_from_entry(entry))
    ELSE objs

\* the local variable event when the parser reaches its yield
ParsedEvent(entry) == IF Parseable(entry) THEN Len(objs) + 1 ELSE event

\* the exception from_entry ends with, "none" when it returns: a KeyError for
\* a payload key that is absent, or the error of from_string_name
ParseError(entry) ==
    IF ReadEvent_can_parse_entry(entry)
    THEN IF entry.missing \cap ReadEvent_needs(entry) # {} THEN "KeyError"
         ELSE from_string_name_error(entry.resourceName)
    ELSE IF QueryEvent_can_parse_entry(entry)
    THEN IF entry.missing \cap QueryEvent_needs # {} THEN "KeyError" ELSE "none"
    ELSE "none"

ParseRaises(entry) == ParseError(entry) # "none"

IsQueryEvent_Never(o) == FALSE

\* event_processor: isinstance(event, QueryEvent)
IsQueryEvent(o) == o.type = "QueryEvent"

DelayArg_OneLess == query_log_delay - 1

\* the delay handed to delayed_iter
DelayArg == query_log_delay

\* position in parsed of the k-th ReadEvent the parser yielded
ReadPositions(seq, heap) == {j \in 1..Len(seq) : ~IsQueryEvent(heap[seq[j]])}

PosOfRead(seq, heap, k) ==
    CHOOSE j \in ReadPositions(seq, heap) :
        Cardinality({i \in ReadPositions(seq, heap) : i <= j}) = k

\* delayed_iter: the deque after item has entered it
DelayedPush(item) == Append(cache, item)

DelayedReleases_Late(buffer, delay) == Len(buffer) > delay + 1

\* delayed_iter yields its oldest element once the new one is beyond delay
DelayedReleases(buffer, delay) == Len(buffer) > delay

ParseEntry(entry, maxlen) ==
    /\ pc = "pull"
    /\ Len(entries) < maxlen
    /\ FilterAdmits(entry.timestamp, start_time, end_time)
    /\ entries' = Append(entries, entry)
    /\ UNCHANGED <<other_vars, top_n_queries, workunits, workunits_produced,
                   query_log_delay, bucket_duration, exhausted, emitted, warnings,
                   datasets, dropped_table, consumed>>
    /\ failures' = IF Parseable(entry) THEN failures
                   ELSE report_failure(failures, <<entry.log_name, "-", entry.insert_id>>, entry)
    /\ IF ParseRaises(entry)
       THEN /\ error' = ParseError(entry)
            /\ pc' = "crashed"
            /\ UNCHANGED <<objs, event, parsed, query_jobs, uses, cache, inflight>>
       ELSE IF ParsedEvent(entry) = 0
       THEN /\ error' = "UnboundLocalError"
            /\ pc' = "crashed"
            /\ UNCHANGED <<objs, event, parsed, query_jobs, uses, cache, inflight>>
       ELSE LET y == ParsedEvent(entry)
                o == ParsedObjs(entry)[y]
            IN /\ objs' = ParsedObjs(entry)
               /\ event' = y
               /\ parsed' = Append(parsed, y)
               /\ error' = error
               /\ IF IsQueryEvent(o)
                  THEN /\ query_jobs' = LRUSetItem(query_jobs, o.jobName, y,
                                                   LRUMaxSize(query_log_delay))
                       /\ uses' = Append(uses, [key |-> o.jobName, op |-> "set",
                                                pos |-> Len(parsed) + 1])
                       /\ pc' = "pull"
                       /\ UNCHANGED <<cache, inflight>>
                  ELSE /\ UNCHANGED <<query_jobs, uses>>
                       /\ IF DelayedReleases(DelayedPush(y), DelayArg)
                          THEN /\ inflight' = Head(DelayedPush(y))
                               /\ cache' = Tail(DelayedPush(y))
                               /\ pc' = "join"
                          ELSE /\ inflight' = 0
                               /\ cache' = DelayedPush(y)
                               /\ pc' = "pull"

\* the log source is exhausted: the parser and event_processor return,
\* delayed_iter starts to yield what it still holds
EndOfInput ==
    /\ pc = "pull"
    /\ exhausted' = TRUE
    /\ pc' = "drain"
    /\ UNCHANGED <<other_vars, top_n_queries, workunits, workunits_produced,
                   query_log_delay, bucket_duration, entries, objs, event, parsed,
                   failures, query_jobs, uses, cache, inflight, emitted, warnings,
                   datasets, dropped_table, consumed, error>>

DrainOne ==
    /\ pc = "drain"
    /\ cache # <<>>
    /\ inflight' = Head(cache)
    /\ cache' = Tail(cache)
    /\ pc' = "join"
    /\ UNCHANGED <<other_vars, top_n_queries, workunits, workunits_produced,
                   query_log_delay, bucket_duration, entries, exhausted, objs, event,
                   parsed, failures, query_jobs, uses, emitted, warnings, datasets,
                   dropped_table, consumed, error>>

\* delayed_iter and _join_events_by_job_id return; the aggregator returns datasets
DrainDone ==
    /\ pc = "drain"
    /\ cache = <<>>
    /\ pc' = "aggregated"
    /\ UNCHANGED <<other_vars, top_n_queries, workunits, workunits_produced,
                   query_log_delay, bucket_duration, entries, exhausted, objs, event,
                   parsed, failures, query_jobs, uses, cache, inflight, emitted,
                   warnings, datasets, dropped_table, consumed, error>>

-----------------------------------------------------------------------------
(* _join_events_by_job_id: the body of its loop over delayed_read_events, for *)
(* the event delayed_iter has just yielded                                    *)

JobAttributed_Always(ev) == TRUE

\* if event.jobName:
JobAttributed(ev) == Truthy(ev.jobName)

\* event.jobName in query_jobs
JoinFinds(ev) == JobAttributed(ev) /\ DictHas(query_jobs, ev.jobName)

\* the event after the loop body
Joined(ev) ==
    IF JoinFinds(ev)
    THEN [ev EXCEPT !.query = objs[DictGet(query_jobs, ev.jobName)].query]
    ELSE ev

JoinRelease ==
    /\ pc = "join"
    /\ LET ev == objs[inflight]
       IN /\ objs' = [objs EXCEPT ![inflight] = Joined(ev)]
          /\ query_jobs' = IF JoinFinds(ev) THEN LRUGetItem(query_jobs, ev.jobName)
                           ELSE query_jobs
          /\ uses' = IF JoinFinds(ev)
                     THEN Append(uses, [key |-> ev.jobName, op |-> "get",
                                        pos |-> PosOfRead(parsed, objs, Len(emitted) + 1)])
                     ELSE uses
          /\ warnings' = IF JobAttributed(ev) /\ ~JoinFinds(ev)
                         THEN report_warning(warnings, "<general>", JoinWarning)
                         ELSE warnings
          /\ emitted' = Append(emitted,
                 [obj |-> inflight,
                  seen |-> Joined(ev),
                  \* what the history below records about the moment of the yield
                  found |-> JoinFinds(ev),
                  nuses |-> Len(uses),
                  behind |-> Cardinality(ReadPositions(parsed, objs)) - (Len(emitted) + 1),
                  drained |-> exhausted])
    /\ pc' = "agg"
    /\ UNCHANGED <<other_vars, top_n_queries, workunits, workunits_produced,
                   query_log_delay, bucket_duration, entries, exhausted, event, parsed,
                   failures, cache, inflight, datasets, dropped_table, consumed, error>>

-----------------------------------------------------------------------------
(* _aggregate_enriched_read_events: the body of its loop, for the event the *)
(* join has just yielded                                                    *)

AggregatedDataset(bucket_start_time, resource) ==
    [bucket_start_time |-> bucket_start_time, resource |-> resource,
     queryFreq |-> <<>>, userCounts |-> <<>>]

\* datasets[floored_ts], of a defaultdict(dict)
BucketOf(ds, floored_ts) == IF DictHas(ds, floored_ts) THEN DictGet(ds, floored_ts) ELSE <<>>

SetDefault_Fresh(bucket, floored_ts, resource) ==
    [bucket_start_time |-> floored_ts, resource |-> resource,
     queryFreq |-> <<>>, userCounts |-> <<>>]

\* datasets[floored_ts].setdefault(resource, AggregatedDataset(...))
SetDefault(bucket, floored_ts, resource) ==
    IF DictHas(bucket, resource) THEN DictGet(bucket, resource)
    ELSE AggregatedDataset(floored_ts, resource)

\* the two Counter updates on agg_bucket
Accumulate(agg, ev) ==
    [agg EXCEPT !.userCounts = CounterInc(@, ev.actor_email),
                !.queryFreq = IF Truthy(ev.query) THEN CounterInc(@, ev.query) ELSE @]

AggregateInto(ds, ev, bucketing) ==
    LET floored_ts == get_time_bucket(ev.timestamp, bucketing)
        resource == remove_extras(ev.resource)
        bucket == BucketOf(ds, floored_ts)
        agg == SetDefault(bucket, floored_ts, resource)
    IN DictPut(ds, floored_ts, DictPut(bucket, resource, Accumulate(agg, ev)))

Aggregate ==
    /\ pc = "agg"
    /\ LET ev == objs[inflight]
       IN IF remove_extras_raises(ev.resource)
          THEN /\ error' = "ValueError"
               /\ pc' = "crashed"
               /\ UNCHANGED <<datasets, dropped_table, consumed, inflight>>
          ELSE /\ IF is_anonymous(remove_extras(ev.resource))
                  THEN /\ dropped_table' = report_dropped(dropped_table,
                                               TableRefStr(remove_extras(ev.resource)))
                       /\ datasets' = datasets
                  ELSE /\ datasets' = AggregateInto(datasets, ev, bucket_duration)
                       /\ dropped_table' = dropped_table
               /\ consumed' = consumed + 1
               /\ inflight' = 0
               /\ error' = error
               /\ pc' = IF exhausted THEN "drain" ELSE "pull"
    /\ UNCHANGED <<other_vars, top_n_queries, workunits, workunits_produced,
                   query_log_delay, bucket_duration, entries, exhausted, objs, event,
                   parsed, failures, query_jobs, uses, cache, emitted, warnings>>

-----------------------------------------------------------------------------
(* get_workunits: the loop over aggregated_info, and _make_usage_stat *)

Min(a, b) == IF a < b THEN a ELSE b

\* sorted(items, key = count, reverse = True), which is stable
InsertDesc(sorted, item) ==
    LET n == Cardinality({i \in 1..Len(sorted) : sorted[i].value >= item.value})
    IN SubSeq(sorted, 1, n) \o <<item>> \o SubSeq(sorted, n + 1, Len(sorted))

RECURSIVE SortedDesc(_)
SortedDesc(items) ==
    IF items = <<>> THEN <<>>
    ELSE InsertDesc(SortedDesc(SubSeq(items, 1, Len(items) - 1)), Last(items))

most_common_Unsorted(counter, n) ==
    IF n = NoLimit THEN counter ELSE SubSeq(counter, 1, Min(n, Len(counter)))

\* Counter.most_common(n)
most_common(counter, n) ==
    IF n = NoLimit THEN SortedDesc(counter)
    ELSE SubSeq(SortedDesc(counter), 1, Min(n, Len(counter)))

\* datetime.isoformat()
isoformat(ts) ==
    <<ts.date, "T", ts.hour, ":", ts.minute, ":", ts.second>>
    \o (IF ts.microsecond # 0 THEN <<".", ts.microsecond>> ELSE <<>>)

\* str(agg.resource), character by character
StrChars(ref) ==
    <<"projects", "/", ref.project, "/", "datasets", "/">> \o ref.dataset
    \o <<"/", "tables", "/">> \o ref.table

table_ref_to_urn(ref) ==
    <<"urn:li:dataset", "bigquery", ref.project, ".">> \o ref.dataset \o <<".">> \o ref.table

make_usage_stat(agg) ==
    [id |-> isoformat(agg.bucket_start_time) \o <<"-">> \o StrChars(agg.resource),
     bucket |-> EpochSeconds(agg.bucket_start_time),
     duration |-> bucket_duration,
     resource |-> table_ref_to_urn(agg.resource),
     users |-> [i \in 1..Len(agg.userCounts) |->
                   [user |-> "urn:li:corpuser:unknown",
                    count |-> most_common(agg.userCounts, NoLimit)[i].value,
                    user_email |-> most_common(agg.userCounts, NoLimit)[i].key]],
     top_sql_queries |->
         [i \in 1..Len(most_common(agg.queryFreq, top_n_queries)) |->
             most_common(agg.queryFreq, top_n_queries)[i].key]]

FlatAggregates_FirstBucket(ds) ==
    IF ds = <<>> THEN <<>>
    ELSE [j \in 1..Len(Head(ds).value) |-> Head(ds).value[j].value]

\* the aggregates in the order of the two nested loops over .values()
RECURSIVE FlatAggregates(_)
FlatAggregates(ds) ==
    IF ds = <<>> THEN <<>>
    ELSE [j \in 1..Len(Head(ds).value) |-> Head(ds).value[j].value]
         \o FlatAggregates(Tail(ds))

report_workunit(produced) == produced + 1

EmitEnabled_Streaming == pc \in {"aggregated", "pull"}

\* the loop over aggregated_info starts once the aggregator has returned
EmitEnabled == pc = "aggregated"

EmitWorkunit ==
    /\ EmitEnabled
    /\ Len(workunits) < Len(FlatAggregates(datasets))
    /\ workunits' = Append(workunits,
                           make_usage_stat(FlatAggregates(datasets)[Len(workunits) + 1]))
    /\ workunits_produced' = report_workunit(workunits_produced)
    /\ UNCHANGED <<other_vars, top_n_queries, query_log_delay, bucket_duration, entries, exhausted,
                   objs, event, parsed, failures, query_jobs, uses, cache, inflight,
                   emitted, warnings, datasets, dropped_table, consumed, error, pc>>

\* both loops are over: get_workunits returns
Finish ==
    /\ pc = "aggregated"
    /\ Len(workunits) = Len(FlatAggregates(datasets))
    /\ pc' = "done"
    /\ UNCHANGED <<other_vars, top_n_queries, workunits, workunits_produced,
                   query_log_delay, bucket_duration, entries, exhausted,
                   objs, event, parsed, failures, query_jobs, uses, cache, inflight,
                   emitted, warnings, datasets, dropped_table, consumed, error>>

-----------------------------------------------------------------------------
(* The aggregator and the emitter called a second time on the events the    *)
(* join has yielded, with the same source object and report                 *)

FreshAccumulator_Stale == datasets

\* datasets = collections.defaultdict(dict), made anew by each call
FreshAccumulator == <<>>

RunAgain ==
    /\ pc = "done"
    /\ run = 1
    /\ run' = 2
    /\ earlier' = workunits
    /\ datasets' = FreshAccumulator
    /\ workunits' = <<>>
    /\ consumed' = 0
    /\ pc' = "again"
    /\ UNCHANGED <<now, given, start_time, end_time, quick_vars,
                   top_n_queries, workunits_produced, query_log_delay, bucket_duration,
                   entries, exhausted, objs, event, parsed, failures, query_jobs, uses,
                   cache, inflight, emitted, warnings, dropped_table, error>>

\* one iteration of the aggregator's loop over the same events
AggregateAgain ==
    /\ pc = "again"
    /\ consumed < Len(emitted)
    /\ LET ev == objs[emitted[consumed + 1].obj]
       IN IF remove_extras_raises(ev.resource)
          THEN /\ error' = "ValueError"
               /\ pc' = "crashed"
               /\ UNCHANGED <<datasets, dropped_table, consumed>>
          ELSE /\ IF is_anonymous(remove_extras(ev.resource))
                  THEN /\ dropped_table' = report_dropped(dropped_table,
                                               TableRefStr(remove_extras(ev.resource)))
                       /\ datasets' = datasets
                  ELSE /\ datasets' = AggregateInto(datasets, ev, bucket_duration)
                       /\ dropped_table' = dropped_table
               /\ consumed' = consumed + 1
               /\ error' = error
               /\ pc' = pc
    /\ UNCHANGED <<other_vars, top_n_queries, workunits, workunits_produced,
                   query_log_delay, bucket_duration, entries, exhausted, objs, event,
                   parsed, failures, query_jobs, uses, cache, inflight, emitted, warnings>>

\* the loop is over: the aggregator returns
AggregatedAgain ==
    /\ pc = "again"
    /\ consumed = Len(emitted)
    /\ pc' = "aggregated"
    /\ UNCHANGED <<other_vars, top_n_queries, workunits, workunits_produced,
                   query_log_delay, bucket_duration, entries, exhausted, objs, event,
                   parsed, failures, query_jobs, uses, cache, inflight, emitted,
                   warnings, datasets, dropped_table, consumed, error>>

-----------------------------------------------------------------------------
(* Log entries fed to the pipeline *)

T1 == [date |-> 1, hour |-> 14, minute |-> 22, second |-> 5, microsecond |-> 7]
T2 == [date |-> 1, hour |-> 9, minute |-> 0, second |-> 0, microsecond |-> 0]

Name_t == <<"t">>
Name_t_shard == <<"t", "_", "2", "0", "2", "1">>
Name_t_decorated == <<"t", "$", "1">>
Name_d == <<"d">>
Name_u == <<"u">>
Name_anon == <<"_", "d">>

Q1 == <<"S", "1">>
Q2 == <<"S", "2">>

ReadEntry(ts, user, dataset, table, reason, jobId) ==
    [blocks |-> {"tableDataRead"}, log_name |-> "log", insert_id |-> "r", missing |-> {},
     timestamp |-> ts, principalEmail |-> user,
     resourceName |-> <<"projects", "p", "datasets", dataset, "tables", table>>,
     fields |-> <<"f">>, reason |-> reason,
     readJobName |-> job_name_ref("p", jobId),
     jobProject |-> "p", jobId |-> jobId, query |-> <<>>]

QueryEntry(ts, user, jobId, query) ==
    [blocks |-> {"jobCompletedEvent"}, log_name |-> "log", insert_id |-> "q", missing |-> {},
     timestamp |-> ts, principalEmail |-> user,
     resourceName |-> <<>>, fields |-> <<>>, reason |-> "",
     readJobName |-> None,
     jobProject |-> "p", jobId |-> jobId, query |-> query]

OtherEntry ==
    [blocks |-> {}, log_name |-> "log", insert_id |-> "x", missing |-> {},
     timestamp |-> T1, principalEmail |-> "a",
     resourceName |-> <<>>, fields |-> <<>>, reason |-> "",
     readJobName |-> None,
     jobProject |-> "p", jobId |-> "", query |-> <<>>]

\* the entry with some payload keys absent
Without(entry, keys) == [entry EXCEPT !.missing = keys]

JoinEntries ==
    {ReadEntry(T1, "a", Name_d, Name_t, "JOB", "j1")}
    \cup {ReadEntry(T1, "a", Name_d, Name_t, "TABLEDATA_LIST_REQUEST", "j1")}
    \cup {QueryEntry(T1, "a", "j1", Q1), QueryEntry(T1, "a", "j1", Q2),
          QueryEntry(T1, "a", "j2", Q2), QueryEntry(T1, "a", "j3", Q1)}

\* a stream with entries of neither shape
ParseEntries ==
    {ReadEntry(T1, "a", Name_d, Name_t, "JOB", "j1"),
     QueryEntry(T1, "a", "j1", Q1),
     QueryEntry(T1, "a", "j2", Q2),
     QueryEntry(T1, "a", "j3", Q1),
     OtherEntry,
     Without(ReadEntry(T1, "a", Name_d, Name_t, "JOB", "j1"), {"principalEmail"}),
     Without(QueryEntry(T1, "a", "j1", Q1), {"destinationTable"})}

AggEntries ==
    {ReadEntry(T1, "a", Name_d, Name_t, "TABLEDATA_LIST_REQUEST", "j1"),
     ReadEntry(T2, "b", Name_d, Name_t, "JOB", "j1"),
     ReadEntry(T1, "a", Name_d, Name_t_shard, "JOB", "j1"),
     ReadEntry(T1, "b", Name_anon, Name_t_shard, "JOB", "j1"),
     ReadEntry(T1, "a", Name_d, Name_t_decorated, "JOB", "j1"),
     QueryEntry(T1, "a", "j1", Q1),
     QueryEntry(T1, "a", "j1", <<>>),
     OtherEntry}

-----------------------------------------------------------------------------
(* Specifications *)

InitJoin == InitWith(1..MaxDelay, {DAY}, {DefaultTopN})

NextJoin ==
    \/ \E entry \in JoinEntries : ParseEntry(entry, MaxJoinEntries)
    \/ EndOfInput
    \/ DrainOne
    \/ DrainDone
    \/ JoinRelease
    \/ Aggregate
    \/ EmitWorkunit
    \/ Finish

SpecJoin == InitJoin /\ [][NextJoin]_vars

InitAgg == InitWith({1}, {DAY, HOUR}, {DefaultTopN})

NextAgg ==
    \/ \E entry \in AggEntries : ParseEntry(entry, MaxAggEntries)
    \/ EndOfInput
    \/ DrainOne
    \/ DrainDone
    \/ JoinRelease
    \/ Aggregate
    \/ EmitWorkunit
    \/ Finish

SpecAgg == InitAgg /\ [][NextAgg]_vars

InitParse == InitWith({1}, {DAY}, {DefaultTopN})

NextParse ==
    \/ \E entry \in ParseEntries : ParseEntry(entry, MaxParseEntries)
    \/ EndOfInput
    \/ DrainOne
    \/ DrainDone
    \/ JoinRelease
    \/ Aggregate
    \/ EmitWorkunit
    \/ Finish

SpecParse == InitParse /\ [][NextParse]_vars

\* table names around the shard pattern: a prefix, an underscore or none,
\* a run of digits, a line break or none
NormPrefixes == {<<>>, <<"t">>, Name_t_shard, <<"t", "$">>, <<"@">>, <<"t", "\n">>}

DigitRuns == {0, 4, 5, 6, 8, 10, 11}

NormNames ==
    {prefix \o mid \o [i \in 1..n |-> "1"] \o tail :
        prefix \in NormPrefixes, mid \in {<<>>, <<"_">>},
        n \in DigitRuns, tail \in {<<>>, <<"\n">>}}

NormEntries ==
    {ReadEntry(T1, "a", Name_d, name, "TABLEDATA_LIST_REQUEST", "j1") : name \in NormNames}
    \cup {ReadEntry(T1, "a", Name_anon, Name_t_shard, "TABLEDATA_LIST_REQUEST", "j1")}

InitNorm == InitWith({1}, {DAY}, {DefaultTopN})

NextNorm ==
    \/ \E entry \in NormEntries : ParseEntry(entry, MaxNormEntries)
    \/ EndOfInput
    \/ DrainOne
    \/ DrainDone
    \/ JoinRelease
    \/ Aggregate
    \/ EmitWorkunit
    \/ Finish

SpecNorm == InitNorm /\ [][NextNorm]_vars

\* reads of one table by two actors through two jobs with different texts
EmitEntries ==
    {ReadEntry(T1, "a", Name_d, Name_t, "JOB", "j1"),
     ReadEntry(T1, "b", Name_d, Name_t, "JOB", "j2"),
     QueryEntry(T1, "a", "j1", Q1),
     QueryEntry(T1, "b", "j2", Q2)}

InitEmit == InitWith({1}, {DAY}, {NoLimit, 1, DefaultTopN})

NextEmit ==
    \/ \E entry \in EmitEntries : ParseEntry(entry, MaxEmitEntries)
    \/ EndOfInput
    \/ DrainOne
    \/ DrainDone
    \/ JoinRelease
    \/ Aggregate
    \/ EmitWorkunit
    \/ Finish

SpecEmit == InitEmit /\ [][NextEmit]_vars

\* reads of two tables at two hours by two actors, one of them anonymous
RerunEntries ==
    {ReadEntry(T1, "a", Name_d, Name_t, "JOB", "j1"),
     ReadEntry(T2, "b", Name_d, Name_t, "TABLEDATA_LIST_REQUEST", "j1"),
     ReadEntry(T1, "b", Name_d, Name_t_shard, "JOB", "j1"),
     ReadEntry(T1, "a", Name_anon, Name_t, "TABLEDATA_LIST_REQUEST", "j1"),
     QueryEntry(T1, "a", "j1", Q1)}

InitRerun == InitWith({1}, {DAY, HOUR}, {DefaultTopN})

NextRerun ==
    \/ \E entry \in RerunEntries : ParseEntry(entry, MaxRerunEntries)
    \/ EndOfInput
    \/ DrainOne
    \/ DrainDone
    \/ JoinRelease
    \/ Aggregate
    \/ EmitWorkunit
    \/ Finish
    \/ RunAgain
    \/ AggregateAgain
    \/ AggregatedAgain

SpecRerun == InitRerun /\ [][NextRerun]_vars

\* the query and the read of job j1, and events that can follow them
ScenarioEntries ==
    {QueryEntry(T1, "a", "j1", Q1),
     ReadEntry(T1, "a", Name_d, Name_t, "JOB", "j1"),
     ReadEntry(T1, "b", Name_d, Name_u, "TABLEDATA_LIST_REQUEST", "j1"),
     ReadEntry(T1, "b", Name_d, Name_t_shard, "TABLEDATA_LIST_REQUEST", "j1"),
     QueryEntry(T1, "a", "j1", Q2),
     QueryEntry(T1, "a", "j2", Q2),
     QueryEntry(T1, "a", "j3", Q1)}

InitScenario == InitWith({1}, {DAY, HOUR}, {DefaultTopN})

NextScenario ==
    \/ \E entry \in ScenarioEntries : ParseEntry(entry, MaxScenarioEntries)
    \/ EndOfInput
    \/ DrainOne
    \/ DrainDone
    \/ JoinRelease
    \/ Aggregate
    \/ EmitWorkunit
    \/ Finish

SpecScenario == InitScenario /\ [][NextScenario]_vars

\* the moments the config is built at, and an end_time and a start_time that
\* a config dict can give
WindowNow == [date |-> 2, hour |-> 14, minute |-> 22, second |-> 5, microsecond |-> 7]
WindowNowOnBoundary == [date |-> 2, hour |-> 0, minute |-> 0, second |-> 0, microsecond |-> 0]
GivenEnd == [date |-> 2, hour |-> 13, minute |-> 30, second |-> 0, microsecond |-> 500000]
GivenStart == [date |-> 1, hour |-> 14, minute |-> 22, second |-> 5, microsecond |-> 7]

\* timestamps at, just before and just after the ends of the default windows
WindowTimes ==
    {[date |-> 0, hour |-> 23, minute |-> 59, second |-> 59, microsecond |-> 999999],
     [date |-> 1, hour |-> 0, minute |-> 0, second |-> 0, microsecond |-> 0],
     T1,
     [date |-> 2, hour |-> 0, minute |-> 0, second |-> 0, microsecond |-> 0],
     [date |-> 2, hour |-> 0, minute |-> 0, second |-> 0, microsecond |-> 1],
     [date |-> 2, hour |-> 13, minute |-> 0, second |-> 0, microsecond |-> 0],
     [date |-> 2, hour |-> 13, minute |-> 30, second |-> 0, microsecond |-> 0],
     [date |-> 2, hour |-> 14, minute |-> 0, second |-> 0, microsecond |-> 0],
     [date |-> 2, hour |-> 14, minute |-> 0, second |-> 0, microsecond |-> 1]}

WindowEntries ==
    {ReadEntry(ts, "a", Name_d, Name_t, "TABLEDATA_LIST_REQUEST", "j1") : ts \in WindowTimes}

InitWindow ==
    InitConfigured({1}, {DAY, HOUR}, {DefaultTopN}, {WindowNow, WindowNowOnBoundary},
                   {<<>>, <<GivenStart>>}, {<<>>, <<GivenEnd>>})

NextWindow ==
    \/ \E entry \in WindowEntries : ParseEntry(entry, MaxWindowEntries)
    \/ EndOfInput
    \/ DrainOne
    \/ DrainDone
    \/ JoinRelease
    \/ Aggregate
    \/ EmitWorkunit
    \/ Finish

SpecWindow == InitWindow /\ [][NextWindow]_vars

\* timestamps at and around the bucket boundaries
BucketTimes ==
    {[date |-> d, hour |-> h, minute |-> m, second |-> sec, microsecond |-> us] :
        d \in {1, 2}, h \in {0, 14, 23}, m \in {0, 59}, sec \in {0, 59}, us \in {0, 999999}}
    \cup {T1}

BucketEntries ==
    {ReadEntry(ts, "a", Name_d, Name_t, "TABLEDATA_LIST_REQUEST", "j1") : ts \in BucketTimes}

InitBucket == InitWith({1}, {DAY, HOUR}, {DefaultTopN})

NextBucket ==
    \/ \E entry \in BucketEntries : ParseEntry(entry, MaxBucketEntries)
    \/ EndOfInput
    \/ DrainOne
    \/ DrainDone
    \/ JoinRelease
    \/ Aggregate
    \/ EmitWorkunit
    \/ Finish

SpecBucket == InitBucket /\ [][NextBucket]_vars

-----------------------------------------------------------------------------
(* What the claims below speak about *)

Count(seq, Test(_)) == Cardinality(Indices(seq, Test))

\* the ReadEvents among the events the parser yielded, in order
ParsedReads == SelectSeq(parsed, LAMBDA id : ~IsQueryEvent(objs[id]))

\* the k-th emitted event sits at position ReadPos(k) of the join's input
ReadPos(k) == PosOfRead(parsed, objs, k)

IsQueryAt(i) == IsQueryEvent(objs[parsed[i]])

\* the QueryEvent at position i of the join's input carries the job name of
\* the k-th emitted ReadEvent
SameJob(i, k) == IsQueryAt(i) /\ objs[parsed[i]].jobName = emitted[k].seen.jobName

\* index in uses of the write made for the QueryEvent at input position i
SetIndex(i) == CHOOSE u \in 1..Len(uses) : uses[u].op = "set" /\ uses[u].pos = i

HasSetIndex(i) == \E u \in 1..Len(uses) : uses[u].op = "set" /\ uses[u].pos = i

\* uses of the history after the write for input position i and before the
\* lookup of the k-th emitted ReadEvent
Window(i, k) == (SetIndex(i) + 1)..emitted[k].nuses

OtherJobsUsed(i, k) ==
    {uses[u].key : u \in Window(i, k)} \ {emitted[k].seen.jobName}

\* input position of the last QueryEvent of that job name written before the lookup
LatestSet(i, k) ==
    LET later == {u \in Window(i, k) :
                     uses[u].op = "set" /\ uses[u].key = emitted[k].seen.jobName}
    IN IF later = {} THEN i
       ELSE uses[CHOOSE u \in later : \A v \in later : v <= u].pos

ResolvedFromLatest(i, k) ==
    /\ HasSetIndex(i)
    /\ SetIndex(i) <= emitted[k].nuses
    /\ Cardinality(OtherJobsUsed(i, k)) < 2 * query_log_delay
         => /\ emitted[k].found
            /\ emitted[k].seen.query = objs[parsed[LatestSet(i, k)]].query

-----------------------------------------------------------------------------
(* C1: an entry of neither shape is recorded as a parse failure and yields  *)
(* nothing: the parser raises no error for it, yields exactly one event per *)
(* parseable entry, and records exactly one failure per other entry.        *)
C1_ParseFailureSkipped ==
    /\ error # "UnboundLocalError"
    /\ Len(parsed) = Count(entries, Parseable)
    /\ Len(failures) = Count(entries, LAMBDA e : ~Parseable(e))

(* C2 as stated: a QueryEvent named J at most query_log_delay positions    *)
(* before a ReadEvent named J gives the emitted ReadEvent its query text,  *)
(* whatever else arrives before the release.                               *)
C2_AsStated ==
    \A k \in 1..Len(emitted) : \A i \in 1..(ReadPos(k) - 1) :
        (SameJob(i, k) /\ ReadPos(k) - i <= query_log_delay)
            => emitted[k].seen.query = objs[parsed[i]].query

(* C2 amended: such a ReadEvent gets the text of the last QueryEvent named *)
(* J written before its release, provided fewer than 2 * query_log_delay   *)
(* other job names were written or looked up in the history in between.    *)
C2_QueryThenReadResolved ==
    \A k \in 1..Len(emitted) : \A i \in 1..(ReadPos(k) - 1) :
        (SameJob(i, k) /\ ReadPos(k) - i <= query_log_delay)
            => ResolvedFromLatest(i, k)

C2_Witness ==
    \E k \in 1..Len(emitted) : \E i \in 1..(ReadPos(k) - 1) :
        /\ SameJob(i, k)
        /\ ReadPos(k) - i <= query_log_delay
        /\ OtherJobsUsed(i, k) # {}
        /\ emitted[k].found
        /\ Truthy(emitted[k].seen.query)

(* C3 as stated: a ReadEvent named J followed by a QueryEvent named J with *)
(* fewer than query_log_delay events between them is emitted with that     *)
(* QueryEvent's text.                                                      *)
C3_AsStated ==
    \A k \in 1..Len(emitted) : \A i \in (ReadPos(k) + 1)..Len(parsed) :
        (SameJob(i, k) /\ i - ReadPos(k) - 1 < query_log_delay)
            => emitted[k].seen.query = objs[parsed[i]].query

(* C3 amended: the late QueryEvent is written to the history before the    *)
(* ReadEvent is released, and the ReadEvent gets the text of the last      *)
(* QueryEvent named J written before its release, provided fewer than      *)
(* 2 * query_log_delay other job names were written or looked up in the    *)
(* history in between.                                                     *)
C3_LateQueryTolerated ==
    \A k \in 1..Len(emitted) : \A i \in (ReadPos(k) + 1)..Len(parsed) :
        (SameJob(i, k) /\ i - ReadPos(k) - 1 < query_log_delay)
            => ResolvedFromLatest(i, k)

C3_Witness ==
    \E k \in 1..Len(emitted) : \E i \in (ReadPos(k) + 1)..Len(parsed) :
        /\ SameJob(i, k)
        /\ i - ReadPos(k) - 1 < query_log_delay
        /\ ~emitted[k].drained
        /\ emitted[k].found
        /\ emitted[k].seen.query = objs[parsed[i]].query

(* C4: a job-attributed ReadEvent that finds no entry for its job name at  *)
(* its release is emitted with an empty query and records one warning; the *)
(* warnings number the job-attributed ReadEvents emitted unresolved.       *)
C4_UnresolvedEmittedEmpty ==
    /\ \A k \in 1..Len(emitted) :
           (Truthy(emitted[k].seen.jobName) /\ ~emitted[k].found)
               => ~Truthy(emitted[k].seen.query)
    /\ Len(warnings) =
           Count(emitted, LAMBDA em : Truthy(em.seen.jobName) /\ ~em.found)

(* C5: the emitted sequence is the ReadEvent subsequence of the input, each *)
(* ReadEvent once and in order, with no QueryEvent; what is not yet emitted *)
(* is in the delay buffer, and nothing is left once the input is exhausted. *)
C5_EmitsReadsInOrder ==
    /\ Len(emitted) <= Len(ParsedReads)
    /\ \A k \in 1..Len(emitted) :
           /\ emitted[k].obj = ParsedReads[k]
           /\ emitted[k].seen.type = "ReadEvent"
    /\ pc \in {"pull", "drain"} =>
           ParsedReads = [k \in 1..Len(emitted) |-> emitted[k].obj] \o cache
    /\ pc = "aggregated" => Len(emitted) = Len(ParsedReads)

C5_Witness ==
    /\ pc = "aggregated"
    /\ Len(emitted) >= 2
    /\ \E i \in 1..Len(parsed) : IsQueryAt(i)
    /\ \E k \in 1..Len(emitted) : emitted[k].drained
    /\ \E k \in 1..Len(emitted) : ~emitted[k].drained


Keys(c) == {c[i].key : i \in 1..Len(c)}

(* C7: the history never holds more than 2 * query_log_delay entries, nor  *)
(* two for one job name; a new job name written to a full history evicts   *)
(* exactly one entry.                                                       *)
C7_HistoryBounded ==
    [][/\ Len(query_jobs') <= 2 * query_log_delay
       /\ Cardinality(Keys(query_jobs')) = Len(query_jobs')
       /\ (Len(query_jobs) = 2 * query_log_delay
             /\ Keys(query_jobs') \ Keys(query_jobs) # {})
            => /\ Cardinality(Keys(query_jobs) \ Keys(query_jobs')) = 1
               /\ Len(query_jobs') = 2 * query_log_delay]_vars

C7_Witness ==
    /\ Len(query_jobs) = 2 * query_log_delay
    /\ Cardinality({uses[u].key : u \in 1..Len(uses)}) > Len(query_jobs)

\* index in uses of the last write or successful lookup of job name k
LastUseIn(us, k) ==
    CHOOSE u \in 1..Len(us) :
        us[u].key = k /\ \A v \in (u + 1)..Len(us) : us[v].key # k

LastUse(k) == LastUseIn(uses, k)

(* C8: writes and successful lookups both count as a use; an evicted entry *)
(* is the one whose last use is oldest, and the history stays ordered by   *)
(* last use.                                                               *)
C8_EvictsLeastRecentlyUsed ==
    [][/\ \A k \in Keys(query_jobs) \ Keys(query_jobs') :
              \A o \in Keys(query_jobs) \ {k} : LastUse(k) < LastUse(o)
       /\ \A i \in 1..Len(query_jobs') : \A j \in (i + 1)..Len(query_jobs') :
              LastUseIn(uses', query_jobs'[i].key) < LastUseIn(uses', query_jobs'[j].key)]_vars

\* a job name kept only because a lookup refreshed it: written before another
\* job name, looked up after it, never rewritten, and the other one is evicted
C8_Witness ==
    \E u \in 1..Len(uses) : \E v \in 1..(u - 1) : \E w \in 1..(v - 1) :
        /\ uses[u].op = "get"
        /\ uses[w].key = uses[u].key
        /\ uses[v].key # uses[u].key
        /\ \A x \in (w + 1)..Len(uses) :
               uses[x].key = uses[u].key => uses[x].op = "get"
        /\ uses[u].key \in Keys(query_jobs)
        /\ uses[v].key \notin Keys(query_jobs)

(* C9: a ReadEvent without a job name is yielded as it is, with an empty   *)
(* query; no warning is recorded and the history is neither read nor       *)
(* reordered.                                                              *)
C9_NoJobPassesThrough ==
    [][(pc = "join" /\ ~Truthy(objs[inflight].jobName))
         => /\ objs' = objs
            /\ warnings' = warnings
            /\ query_jobs' = query_jobs
            /\ uses' = uses
            /\ Len(emitted') = Len(emitted) + 1
            /\ Last(emitted').seen = objs[inflight]
            /\ Last(emitted').seen.query = None]_vars

C9_Witness ==
    \E k \in 1..Len(emitted) :
        /\ ~Truthy(emitted[k].seen.jobName)
        /\ emitted[k].nuses > 0
        /\ Len(query_jobs) > 1

\* the events the aggregator has finished with
ConsumedEvents == [k \in 1..consumed |-> emitted[k].seen]

AggBucket(ev) == get_time_bucket(ev.timestamp, bucket_duration)

AggResource(ev) == remove_extras(ev.resource)

\* the AggregatedDataset held under (ts, res), an empty one when there is none
AggAt(ts, res) ==
    IF DictHas(datasets, ts) /\ DictHas(DictGet(datasets, ts), res)
    THEN DictGet(DictGet(datasets, ts), res)
    ELSE AggregatedDataset(ts, res)

AggKeys ==
    UNION {{<<datasets[i].key, datasets[i].value[j].key>> :
               j \in 1..Len(datasets[i].value)} : i \in 1..Len(datasets)}

SeenBuckets ==
    {AggBucket(ConsumedEvents[k]) : k \in 1..consumed} \cup {key[1] : key \in AggKeys}

SeenResources ==
    {AggResource(ConsumedEvents[k]) : k \in 1..consumed} \cup {key[2] : key \in AggKeys}

SeenActors ==
    {ConsumedEvents[k].actor_email : k \in 1..consumed}
    \cup UNION {Keys(AggAt(key[1], key[2]).userCounts) : key \in AggKeys}

SeenQueries ==
    {ConsumedEvents[k].query : k \in 1..consumed} \cup {None, <<>>}
    \cup UNION {Keys(AggAt(key[1], key[2]).queryFreq) : key \in AggKeys}

\* consumed events that count for (ts, res)
CountedFor(ts, res) ==
    {k \in 1..consumed :
        /\ ~is_anonymous(AggResource(ConsumedEvents[k]))
        /\ AggBucket(ConsumedEvents[k]) = ts
        /\ AggResource(ConsumedEvents[k]) = res}

(* C10: for every bucket and resource, userCounts[a] is the number of      *)
(* consumed non-anonymous ReadEvents of that bucket and normalized         *)
(* resource by actor a, and queryFreq[q] the number of those whose query   *)
(* is the non-empty text q; an empty query counts for no text.             *)
C10_CountsMatchEvents ==
    \A ts \in SeenBuckets : \A res \in SeenResources :
        /\ \A a \in SeenActors :
               CounterGet(AggAt(ts, res).userCounts, a) =
                   Cardinality({k \in CountedFor(ts, res) :
                                   ConsumedEvents[k].actor_email = a})
        /\ \A q \in SeenQueries :
               CounterGet(AggAt(ts, res).queryFreq, q) =
                   IF Truthy(q)
                   THEN Cardinality({k \in CountedFor(ts, res) :
                                        ConsumedEvents[k].query = q})
                   ELSE 0

\* one AggregatedDataset with two actors at count 1, one of them for a shard
\* of the table and one with an empty query
C10_Witness ==
    \E key \in AggKeys :
        /\ Keys(AggAt(key[1], key[2]).userCounts) = {"a", "b"}
        /\ CounterGet(AggAt(key[1], key[2]).userCounts, "a") = 1
        /\ CounterGet(AggAt(key[1], key[2]).userCounts, "b") = 1
        /\ Len(AggAt(key[1], key[2]).queryFreq) = 1
        /\ \E k \in CountedFor(key[1], key[2]) :
               ConsumedEvents[k].resource # key[2]

-----------------------------------------------------------------------------
(* Claims about the aggregator's bookkeeping *)

\* the AggregatedDataset held in ds under (ts, res), an empty one when none
AggIn(ds, ts, res) ==
    IF DictHas(ds, ts) /\ DictHas(DictGet(ds, ts), res)
    THEN DictGet(DictGet(ds, ts), res)
    ELSE AggregatedDataset(ts, res)

AggKeysIn(ds) ==
    UNION {{<<ds[i].key, ds[i].value[j].key>> : j \in 1..Len(ds[i].value)} :
              i \in 1..Len(ds)}

\* the aggregator is about to handle an event of a dataset that starts with
\* an underscore and whose normalization returns
AnonymousInHand ==
    /\ pc = "agg"
    /\ ~(Contains(objs[inflight].resource.table, "$")
         \/ Contains(objs[inflight].resource.table, "@"))
    /\ objs[inflight].resource.dataset # <<>>
    /\ Head(objs[inflight].resource.dataset) = "_"

KeysDistinct(ds) ==
    /\ \A i, j \in 1..Len(ds) : ds[i].key = ds[j].key => i = j
    /\ \A i \in 1..Len(ds) : \A j, k \in 1..Len(ds[i].value) :
           ds[i].value[j].key = ds[i].value[k].key => j = k

FieldsEqualKey(ds) ==
    \A i \in 1..Len(ds) : \A j \in 1..Len(ds[i].value) :
        /\ ds[i].value[j].value.bucket_start_time = ds[i].key
        /\ ds[i].value[j].value.resource = ds[i].value[j].key

\* every count of before is still there in after, and no smaller
CountsKept(before, after) ==
    \A c \in 1..Len(before) : CounterGet(after, before[c].key) >= before[c].value

(* C12: datasets holds each (bucket_start_time, resource) key once, every   *)
(* AggregatedDataset carries the fields of its key, and a step of the run   *)
(* keeps every key with counts that are at least what they were.            *)
C12_OneInstancePerKey ==
    [][/\ KeysDistinct(datasets) /\ KeysDistinct(datasets')
       /\ FieldsEqualKey(datasets) /\ FieldsEqualKey(datasets')
       /\ \A key \in AggKeysIn(datasets) :
              /\ key \in AggKeysIn(datasets')
              /\ CountsKept(AggIn(datasets, key[1], key[2]).userCounts,
                            AggIn(datasets', key[1], key[2]).userCounts)
              /\ CountsKept(AggIn(datasets, key[1], key[2]).queryFreq,
                            AggIn(datasets', key[1], key[2]).queryFreq)]_vars

\* two keys, one of them hit by a second event of the same actor
C12_Witness ==
    /\ Cardinality(AggKeys) >= 2
    /\ \E key \in AggKeys : CounterGet(AggAt(key[1], key[2]).userCounts, "a") >= 2

-----------------------------------------------------------------------------
(* Claims about the resources that are aggregated *)

HasDecorator(table) == \E i \in 1..Len(table) : table[i] \in {"$", "@"}

\* table is whole followed by an underscore and n digits, and a line break
\* or none
ShardOf(table, whole, n) ==
    /\ Len(table) \in {Len(whole) + 1 + n, Len(whole) + 2 + n}
    /\ SubSeq(table, 1, Len(whole)) = whole
    /\ table[Len(whole) + 1] = "_"
    /\ \A i \in (Len(whole) + 2)..(Len(whole) + 1 + n) : table[i] \in Digits
    /\ Len(table) = Len(whole) + 2 + n => Last(table) = "\n"

\* table ends in an underscore followed by exactly 4, 6, 8 or 10 digits
EndsInShard(table) ==
    \E n \in {4, 6, 8, 10} :
        /\ Len(table) >= n + 1
        /\ table[Len(table) - n] = "_"
        /\ \A i \in (Len(table) - n + 1)..Len(table) : table[i] \in Digits

-----------------------------------------------------------------------------
(* Claims about errors that end the run *)

(* C14: the run never stops on a ReadEvent whose table name holds $ or @   *)
(* with the other events aggregated and no usage record emitted for them.   *)
C14_DecoratorDoesNotAbort ==
    ~(/\ pc = "crashed"
      /\ error = "ValueError"
      /\ inflight # 0
      /\ HasDecorator(objs[inflight].resource.table)
      /\ datasets # <<>>
      /\ workunits = <<>>)

(* C15: the parser is never left by an exception for a payload key that an  *)
(* entry with the read block or the completed-job block lacks.              *)
C15_MissingKeyDoesNotRaise ==
    ~(/\ pc = "crashed"
      /\ error = "KeyError"
      /\ entries # <<>>
      /\ Last(entries).missing # {}
      /\ Parseable(Last(entries)))

-----------------------------------------------------------------------------
(* Claims about the usage records get_workunits yields *)

(* C16: once a usage record has been yielded, the entry source is           *)
(* exhausted, the delay buffer is empty, no event is in flight, and every   *)
(* ReadEvent the parser yielded has been joined and aggregated.             *)
C16_OutputAfterInput ==
    workunits # <<>> =>
        /\ exhausted
        /\ cache = <<>>
        /\ inflight = 0
        /\ Len(emitted) = Len(ParsedReads)
        /\ consumed = Len(emitted)
        /\ pc \in {"aggregated", "done"}

\* records are being yielded after three ReadEvents went through the buffer
C16_Witness ==
    /\ Len(workunits) >= 2
    /\ consumed >= 3

\* the (bucket, normalized resource) pairs of the consumed events that count
CountedPairs ==
    {<<AggBucket(ConsumedEvents[k]), AggResource(ConsumedEvents[k])>> :
        k \in {j \in 1..consumed :
                  ~(ConsumedEvents[j].resource.dataset # <<>>
                    /\ Head(ConsumedEvents[j].resource.dataset) = "_")}}

\* "{bucket_start_iso}-{resource_identifier}"
RecordId(pair) == isoformat(pair[1]) \o <<"-">> \o StrChars(pair[2])

(* C17: when get_workunits has returned, each (bucket, normalized resource) *)
(* pair of a consumed non-anonymous ReadEvent has exactly one record, every *)
(* record is the one of such a pair, no two records have the same id, and   *)
(* the report has counted as many work units as were yielded.               *)
C17_OneRecordPerPair ==
    pc = "done" =>
        /\ \A pair \in CountedPairs :
               Cardinality({i \in 1..Len(workunits) :
                               /\ workunits[i].id = RecordId(pair)
                               /\ workunits[i].bucket = EpochSeconds(pair[1])
                               /\ workunits[i].resource = table_ref_to_urn(pair[2])}) = 1
        /\ \A i \in 1..Len(workunits) :
               \E pair \in CountedPairs : workunits[i].id = RecordId(pair)
        /\ \A i, j \in 1..Len(workunits) :
               workunits[i].id = workunits[j].id => i = j
        /\ workunits_produced = Len(workunits)

\* a completed run with records of two buckets and a dropped anonymous event
C17_Witness ==
    /\ pc = "done"
    /\ Len(datasets) >= 2
    /\ Len(workunits) >= 2
    /\ dropped_table # <<>>

\* position of key in the Counter, which is the order of first insertion
FirstSeen(counter, key) == CHOOSE c \in 1..Len(counter) : counter[c].key = key

\* key x comes before key y in most-common order
MoreCommon(counter, x, y) ==
    \/ CounterGet(counter, x) > CounterGet(counter, y)
    \/ /\ CounterGet(counter, x) = CounterGet(counter, y)
       /\ FirstSeen(counter, x) < FirstSeen(counter, y)

\* the accumulator the i-th record was made from
AccumulatorOf(i) == FlatAggregates(datasets)[i]

ListedUsers(i) == {workunits[i].users[u].user_email : u \in 1..Len(workunits[i].users)}

ListedQueries(i) ==
    {workunits[i].top_sql_queries[q] : q \in 1..Len(workunits[i].top_sql_queries)}

(* C18: in every record, users lists each actor of the accumulator once     *)
(* with its count, in descending count with ties in first-seen order; and   *)
(* top_sql_queries lists min(top_n_queries, distinct texts) texts, all of   *)
(* them when top_n_queries is None, each once, in the same order, and no    *)
(* text left out comes before a listed one in that order.                   *)
C18_MostCommonFirst ==
    \A i \in 1..Len(workunits) :
        /\ Len(workunits[i].users) = Len(AccumulatorOf(i).userCounts)
        /\ ListedUsers(i) = Keys(AccumulatorOf(i).userCounts)
        /\ \A u \in 1..Len(workunits[i].users) :
               workunits[i].users[u].count =
                   CounterGet(AccumulatorOf(i).userCounts, workunits[i].users[u].user_email)
        /\ \A u, v \in 1..Len(workunits[i].users) :
               u < v => MoreCommon(AccumulatorOf(i).userCounts,
                                   workunits[i].users[u].user_email,
                                   workunits[i].users[v].user_email)
        /\ Len(workunits[i].top_sql_queries) =
               IF top_n_queries = NoLimit \/ top_n_queries > Len(AccumulatorOf(i).queryFreq)
               THEN Len(AccumulatorOf(i).queryFreq)
               ELSE top_n_queries
        /\ ListedQueries(i) \subseteq Keys(AccumulatorOf(i).queryFreq)
        /\ \A q, r \in 1..Len(workunits[i].top_sql_queries) :
               q < r => MoreCommon(AccumulatorOf(i).queryFreq,
                                   workunits[i].top_sql_queries[q],
                                   workunits[i].top_sql_queries[r])
        /\ \A x \in ListedQueries(i) :
               \A y \in Keys(AccumulatorOf(i).queryFreq) \ ListedQueries(i) :
                   MoreCommon(AccumulatorOf(i).queryFreq, x, y)

\* a record whose single listed text is the second one seen, and whose first
\* user is the second one seen
C18_Witness ==
    \E i \in 1..Len(workunits) :
        /\ Len(AccumulatorOf(i).queryFreq) = 2
        /\ workunits[i].top_sql_queries = <<AccumulatorOf(i).queryFreq[2].key>>
        /\ Len(workunits[i].users) = 2
        /\ workunits[i].users[1].user_email = AccumulatorOf(i).userCounts[2].key

-----------------------------------------------------------------------------
(* Claims about remove_extras, seen through the aggregator that calls it *)

NoLineBreak(table) == \A i \in 1..Len(table) : table[i] # "\n"

\* the length of the digit group table ends in
ShardDigits(table) ==
    CHOOSE n \in {4, 6, 8, 10} :
        /\ Len(table) >= n + 1
        /\ table[Len(table) - n] = "_"
        /\ \A i \in (Len(table) - n + 1)..Len(table) : table[i] \in Digits

WithoutShard(table) == SubSeq(table, 1, Len(table) - ShardDigits(table) - 1)

\* this step of the aggregator files the event in hand under ref: as a count
\* of its actor in the AggregatedDataset of ref, or as a drop of ref
FiledUnder(ref) ==
    LET ev == objs[inflight]
        ts == get_time_bucket(ev.timestamp, bucket_duration)
    IN IF ref.dataset # <<>> /\ Head(ref.dataset) = "_"
       THEN CounterGet(dropped_table', TableRefStr(ref)) =
                CounterGet(dropped_table, TableRefStr(ref)) + 1
       ELSE CounterGet(AggIn(datasets', ts, ref).userCounts, ev.actor_email) =
                CounterGet(AggIn(datasets, ts, ref).userCounts, ev.actor_email) + 1

C19_AsStated ==
    [][(pc = "agg" /\ ~HasDecorator(objs[inflight].resource.table)) =>
          FiledUnder(TableRef(objs[inflight].resource.project,
                              objs[inflight].resource.dataset,
                              IF EndsInShard(objs[inflight].resource.table)
                              THEN WithoutShard(objs[inflight].resource.table)
                              ELSE objs[inflight].resource.table))]_vars

(* C19: for a table name without $, @ and line breaks, the aggregator files *)
(* the event under the same project and dataset and the name without its    *)
(* trailing underscore and 4, 6, 8 or 10 digits when the name ends in such  *)
(* a group with at least one character before it, and under the unchanged   *)
(* name otherwise.                                                          *)
C19_StripsOneShardSuffix ==
    [][(/\ pc = "agg"
        /\ ~HasDecorator(objs[inflight].resource.table)
        /\ NoLineBreak(objs[inflight].resource.table)) =>
          FiledUnder(TableRef(objs[inflight].resource.project,
                              objs[inflight].resource.dataset,
                              IF /\ EndsInShard(objs[inflight].resource.table)
                                 /\ WithoutShard(objs[inflight].resource.table) # <<>>
                              THEN WithoutShard(objs[inflight].resource.table)
                              ELSE objs[inflight].resource.table))]_vars

\* a name with a group of ten digits has been filed under the name without it
C19_Witness ==
    \E key \in AggKeys : \E k \in 1..consumed :
        /\ NoLineBreak(ConsumedEvents[k].resource.table)
        /\ ShardOf(ConsumedEvents[k].resource.table, key[2].table, 10)

(* C20: the aggregator's call of remove_extras ends in a ValueError, with   *)
(* nothing filed for the event, exactly when the table name holds $ or @,   *)
(* whether or not the name ends in a shard suffix.                          *)
C20_FailsOnDecorator ==
    [][pc = "agg" =>
          /\ HasDecorator(objs[inflight].resource.table) <=>
                 (pc' = "crashed" /\ error' = "ValueError")
          /\ HasDecorator(objs[inflight].resource.table) =>
                 /\ datasets' = datasets
                 /\ dropped_table' = dropped_table
                 /\ consumed' = consumed
          /\ ~HasDecorator(objs[inflight].resource.table) =>
                 /\ consumed' = consumed + 1
                 /\ error' = error]_vars

\* the run has ended on a name with a decorator and a shard suffix
C20_Witness ==
    /\ pc = "crashed"
    /\ error = "ValueError"
    /\ inflight # 0
    /\ Contains(objs[inflight].resource.table, "@")
    /\ EndsInShard(objs[inflight].resource.table)

-----------------------------------------------------------------------------
(* Claims about time buckets *)

\* get_bucket_duration_delta, in seconds
WidthSeconds(bucketing) == IF bucketing = HOUR THEN 3600 ELSE 86400

\* b is the start of the window of width bucketing that holds t
FloorOf(b, t, bucketing) ==
    /\ b.microsecond = 0
    /\ EpochSeconds(b) % WidthSeconds(bucketing) = 0
    /\ EpochSeconds(b) <= EpochSeconds(t)
    /\ EpochSeconds(t) < EpochSeconds(b) + WidthSeconds(bucketing)

SameWindow(t1, t2, bucketing) ==
    EpochSeconds(t1) \div WidthSeconds(bucketing) =
        EpochSeconds(t2) \div WidthSeconds(bucketing)

(* C21: every aggregated event is counted in a bucket b that lies on a     *)
(* boundary of the bucket width with b <= t < b + width, that is its own    *)
(* bucket, and that is the bucket of every timestamp of the same window.    *)
C21_BucketIsFloor ==
    \A k \in {j \in 1..consumed : ~is_anonymous(AggResource(ConsumedEvents[j]))} :
        \E i \in 1..Len(datasets) :
            /\ FloorOf(datasets[i].key, ConsumedEvents[k].timestamp, bucket_duration)
            /\ get_time_bucket(datasets[i].key, bucket_duration) = datasets[i].key
            /\ CounterGet(AggAt(datasets[i].key,
                                AggResource(ConsumedEvents[k])).userCounts,
                          ConsumedEvents[k].actor_email) >= 1
            /\ \A t \in BucketTimes :
                   SameWindow(t, ConsumedEvents[k].timestamp, bucket_duration)
                       <=> get_time_bucket(t, bucket_duration) = datasets[i].key

\* an event of 14:22:05 is counted at 14:00:00 of its day
C21_Witness ==
    /\ bucket_duration = HOUR
    /\ consumed = 1
    /\ ConsumedEvents[1].timestamp = T1
    /\ datasets[1].key = [T1 EXCEPT !.minute = 0, !.second = 0, !.microsecond = 0]

-----------------------------------------------------------------------------
(* Claims about running the aggregator and the emitter again *)

(* C22: the records the second run yields are, position by position, the    *)
(* records of the first run, and when it has returned it has yielded all of *)
(* them, whatever the report has counted meanwhile.                         *)
C22_SameRecordsAgain ==
    run = 2 =>
        /\ Len(workunits) <= Len(earlier)
        /\ \A i \in 1..Len(workunits) : workunits[i] = earlier[i]
        /\ pc = "done" => workunits = earlier

\* a second run has returned two records while the report counts the
\* anonymous event and the work units of both runs
C22_Witness ==
    /\ run = 2
    /\ pc = "done"
    /\ Len(workunits) >= 2
    /\ workunits_produced = 2 * Len(workunits)
    /\ \E c \in 1..Len(dropped_table) : dropped_table[c].value = 2

-----------------------------------------------------------------------------
(* Claims about whole runs *)

\* the input starts with the query of job j1 and the read of table t by a
\* through that job, and goes on
ScenarioInput ==
    /\ Len(entries) >= 3
    /\ entries[1] = QueryEntry(T1, "a", "j1", Q1)
    /\ entries[2] = ReadEntry(T1, "a", Name_d, Name_t, "JOB", "j1")

\* the output holds the record of the scenario
ScenarioRecord ==
    \E i \in 1..Len(workunits) :
        /\ workunits[i].bucket = EpochSeconds(get_time_bucket(T1, bucket_duration))
        /\ workunits[i].resource = table_ref_to_urn(TableRef("p", Name_d, Name_t))
        /\ workunits[i].top_sql_queries = <<Q1>>
        /\ workunits[i].users =
               <<[user |-> "urn:li:corpuser:unknown", count |-> 1, user_email |-> "a"]>>

IsReadEntry(entry) == "tableDataRead" \in entry.blocks

\* the entries after the first two that come before the next read entry
BeforeNextRead ==
    {i \in 3..Len(entries) : \A j \in 3..i : ~IsReadEntry(entries[j])}

\* the later entries leave the record of the scenario alone: none reads
\* table t or a shard of it, none is a query of job j1, and the queries
\* before the next read are of one other job at most
QuietFillers ==
    /\ \A i \in 3..Len(entries) :
           /\ IsReadEntry(entries[i]) =>
                  entries[i].resourceName[6] \notin {Name_t, Name_t_shard}
           /\ ~IsReadEntry(entries[i]) => entries[i].jobId # "j1"
    /\ Cardinality({entries[i].jobId : i \in BeforeNextRead}) <= 1

C23_AsStated == (pc = "done" /\ ScenarioInput) => ScenarioRecord

(* C23: with query_log_delay = 1, a completed run over the query of job j1, *)
(* the read of table t through j1 by a, and one or more later entries that  *)
(* neither read t, nor are queries of j1, nor hold queries of two other     *)
(* jobs before the next read, has yielded the record of t in the bucket of  *)
(* T with top queries [q] and users [a: 1].                                 *)
C23_ScenarioWithQuietFillers ==
    (pc = "done" /\ ScenarioInput /\ QuietFillers) => ScenarioRecord

\* the scenario followed by a query of another job and a read of another
\* table has returned two records
C23_Witness ==
    /\ pc = "done"
    /\ ScenarioInput
    /\ QuietFillers
    /\ Len(workunits) = 2
    /\ \E i \in 3..Len(entries) : ~IsReadEntry(entries[i])

-----------------------------------------------------------------------------
(* Claims about the time window of the config *)

\* start lies exactly one bucket width before end
OneWidthBefore(start, end, bucketing) ==
    /\ EpochSeconds(end) - EpochSeconds(start) = WidthSeconds(bucketing)
    /\ start.microsecond = end.microsecond

(* C24: a config without start_time and end_time ends at the current time   *)
(* floored to the bucket boundary; a config without start_time starts one   *)
(* bucket width before its end_time, given or defaulted, and so before it.  *)
C24_DefaultWindowIsOneBucket ==
    /\ (given.start_time = <<>> /\ given.end_time = <<>>) =>
           FloorOf(end_time, now, bucket_duration)
    /\ (given.start_time = <<>> /\ given.end_time # <<>>) =>
           end_time = given.end_time[1]
    /\ given.start_time = <<>> =>
           /\ OneWidthBefore(start_time, end_time, bucket_duration)
           /\ TimeLeq(start_time, end_time)
           /\ start_time # end_time

\* a run has returned a record under a config that gave end_time only, at a
\* time off the bucket boundary
C24_Witness ==
    /\ given.start_time = <<>>
    /\ given.end_time # <<>>
    /\ end_time.microsecond # 0
    /\ bucket_duration = HOUR
    /\ start_time.hour = end_time.hour - 1
    /\ pc = "done"
    /\ workunits # <<>>

(* C25: no entry is consumed whose timestamp is end_time or later, and with *)
(* the default window no record is yielded for the bucket that starts at    *)
(* end_time.                                                                *)
C25_WindowIsHalfOpen ==
    /\ \A i \in 1..Len(entries) :
           /\ TimeLeq(start_time, entries[i].timestamp)
           /\ TimeLeq(entries[i].timestamp, end_time)
           /\ entries[i].timestamp # end_time
    /\ (given.start_time = <<>> /\ given.end_time = <<>>) =>
           \A i \in 1..Len(workunits) : workunits[i].bucket # EpochSeconds(end_time)

-----------------------------------------------------------------------------
(* What the join engine holds *)

\* ReadEvents the join has pulled from the parser and not yet yielded
HeldReads == Len(ParsedReads) - Len(emitted)

(* C26: at every point of a run the join engine holds at most              *)
(* query_log_delay + 1 ReadEvents pulled and not yet emitted, of which at  *)
(* most query_log_delay rest in the delay buffer between two pulls, and    *)
(* at most 2 * query_log_delay QueryEvents in its history.                 *)
C26_JoinHoldsBounded ==
    /\ HeldReads <= query_log_delay + 1
    /\ pc \in {"pull", "drain"} => Len(cache) <= query_log_delay
    /\ Len(query_jobs) <= 2 * query_log_delay

C26_Witness ==
    /\ pc = "join"
    /\ ~exhausted
    /\ HeldReads = query_log_delay + 1
    /\ Len(query_jobs) = 2 * query_log_delay
    /\ Len(emitted) >= 1

-----------------------------------------------------------------------------
(* Order between the two streams of the join *)

\* the QueryEvent at input position i was written to the history before the
\* k-th emitted ReadEvent was looked up
InsertedBefore(i, k) == HasSetIndex(i) /\ SetIndex(i) <= emitted[k].nuses

\* input positions whose QueryEvents must be in the history when the k-th
\* ReadEvent is looked up: those before the query_log_delay-th ReadEvent
\* after it, or all of them when fewer ReadEvents follow
DueBefore(k) ==
    IF Len(ParsedReads) >= k + query_log_delay
    THEN {i \in 1..(ReadPos(k + query_log_delay) - 1) : IsQueryAt(i)}
    ELSE {i \in 1..Len(parsed) : IsQueryAt(i)}

(* C27: when a ReadEvent R is looked up in the history, every QueryEvent   *)
(* that precedes, in the input, the query_log_delay-th ReadEvent after R   *)
(* has been written to the history; when fewer than query_log_delay        *)
(* ReadEvents follow R, every QueryEvent of the input has been written.    *)
C27_QueriesInsertedBeforeLookup ==
    \A k \in 1..Len(emitted) :
        /\ Len(ParsedReads) < k + query_log_delay => emitted[k].drained
        /\ \A i \in DueBefore(k) : InsertedBefore(i, k)

C27_Witness ==
    /\ \E k \in 1..Len(emitted) :
           /\ Len(ParsedReads) >= k + query_log_delay
           /\ \E i \in DueBefore(k) : i > ReadPos(k) /\ SameJob(i, k)
           /\ emitted[k].found
    /\ \E k \in 1..Len(emitted) :
           /\ Len(ParsedReads) < k + query_log_delay
           /\ \E i \in DueBefore(k) : i > ReadPos(k)

-----------------------------------------------------------------------------
(* Conservation in the aggregator *)

\* sum(counter.values())
RECURSIVE SumValues(_)
SumValues(counter) ==
    IF counter = <<>> THEN 0
    ELSE Head(counter).value + SumValues(Tail(counter))

\* the user counts of all AggregatedDatasets together
RECURSIVE TotalUserCounts(_)
TotalUserCounts(aggs) ==
    IF aggs = <<>> THEN 0
    ELSE SumValues(Head(aggs).userCounts) + TotalUserCounts(Tail(aggs))

(* C28: after the aggregator has consumed k ReadEvents, none of them with  *)
(* a decorated table name, the user counts of all AggregatedDatasets plus  *)
(* the dropped-resource counts add up to k, and in every AggregatedDataset *)
(* the query frequencies add up to no more than the user counts.           *)
C28_CountsConserved ==
    (\A k \in 1..consumed : ~HasDecorator(ConsumedEvents[k].resource.table)) =>
        /\ TotalUserCounts(FlatAggregates(datasets)) + SumValues(dropped_table)
               = consumed
        /\ \A j \in 1..Len(FlatAggregates(datasets)) :
               SumValues(FlatAggregates(datasets)[j].queryFreq)
                   <= SumValues(FlatAggregates(datasets)[j].userCounts)

C28_Witness ==
    /\ consumed >= 3
    /\ \A k \in 1..consumed : ~HasDecorator(ConsumedEvents[k].resource.table)
    /\ SumValues(dropped_table) >= 1
    /\ \E j \in 1..Len(FlatAggregates(datasets)) :
           /\ SumValues(FlatAggregates(datasets)[j].queryFreq) >= 1
           /\ SumValues(FlatAggregates(datasets)[j].queryFreq)
                  < SumValues(FlatAggregates(datasets)[j].userCounts)

-----------------------------------------------------------------------------
(* Two QueryEvents under one job name *)

\* input position of the last QueryEvent written to the history under key
LastWritten(key) ==
    LET sets == {u \in 1..Len(uses) : uses[u].op = "set" /\ uses[u].key = key}
    IN uses[CHOOSE u \in sets : \A v \in sets : v <= u].pos

\* the history holds, under every job name, the last QueryEvent written
HistoryHoldsLatest ==
    /\ \A a, b \in 1..Len(query_jobs) : query_jobs[a].key = query_jobs[b].key => a = b
    /\ \A a \in 1..Len(query_jobs) :
           query_jobs[a].value = parsed[LastWritten(query_jobs[a].key)]

\* i1 < i2 are QueryEvents of the job name of the k-th emitted ReadEvent, and
\* i2 is the last of that name written before the ReadEvent was looked up
Rewritten(i1, i2, k) ==
    /\ i1 < i2
    /\ SameJob(i1, k)
    /\ SameJob(i2, k)
    /\ InsertedBefore(i2, k)
    /\ LatestSet(i2, k) = i2

(* C29 as stated: the history keeps one entry for J, holding the later     *)
(* QueryEvent, and every ReadEvent named J released after the second       *)
(* insertion is emitted with the later event's query text.                 *)
C29_AsStated ==
    /\ HistoryHoldsLatest
    /\ \A k \in 1..Len(emitted) : \A i1, i2 \in 1..Len(parsed) :
           Rewritten(i1, i2, k) => emitted[k].seen.query = objs[parsed[i2]].query

(* C29 amended: the history never holds two entries for J and an entry for *)
(* J holds the last QueryEvent written under J; a ReadEvent named J        *)
(* released after the second insertion is emitted with the later event's   *)
(* text when J is still in the history at its lookup, and otherwise, J     *)
(* having been evicted, without a lookup result and with a warning.        *)
C29_LaterQueryWins ==
    /\ HistoryHoldsLatest
    /\ \A k \in 1..Len(emitted) : \A i1, i2 \in 1..Len(parsed) :
           Rewritten(i1, i2, k) =>
               /\ emitted[k].found => emitted[k].seen.query = objs[parsed[i2]].query
               /\ ~emitted[k].found =>
                      Cardinality(OtherJobsUsed(i2, k)) >= 2 * query_log_delay

C29_Witness ==
    \E k \in 1..Len(emitted) : \E i1, i2 \in 1..Len(parsed) :
        /\ Rewritten(i1, i2, k)
        /\ objs[parsed[i1]].query # objs[parsed[i2]].query
        /\ emitted[k].found
        /\ emitted[k].seen.query = objs[parsed[i2]].query

-----------------------------------------------------------------------------
(* datahub docker quickstart: the loop that waits for the containers *)

\* seconds the clock can advance between two statements
MaxLag == 1

\* seconds docker-compose up -d can take
MaxUpSeconds == 1

\* seconds check_local_docker_containers can take
MaxCheckSeconds == 1

\* max_wait_time, sleep_interval and up_interval, in seconds
max_wait_time == 300

sleep_interval == 2

up_interval == 60

\* what check_local_docker_containers can return
IssueLists ==
    {<<>>,
     <<"datahub-gms is still starting">>,
     <<"mysql is not running", "broker container is not present">>}

UnableHeader == "Unable to run quickstart - the following issues were detected:"

LogsFooter == "If you think something went wrong, please file an issue"

SuccessMessage == "DataHub is now running"

\* while (datetime.datetime.now() - start_time) < max_wait_time
LoopContinues(since_start) == since_start < max_wait_time

UpDue_Always(since_start, attempts) == TRUE

\* if (datetime.datetime.now() - start_time) > up_attempts * up_interval
UpDue(since_start, attempts) == since_start > attempts * up_interval

\* _print_issue_list_and_exit: the lines printed and the exit status
print_issue_list_and_exit(issue_list, header, footer) ==
    [lines |-> <<header>> \o issue_list
                   \o (IF footer # "" THEN <<"", footer>> ELSE <<>>),
     status |-> 1]

\* the loop condition is evaluated
WhileTest ==
    /\ qs_pc = "while"
    /\ \E lag \in 0..MaxLag :
           /\ clock' = clock + lag
           /\ waited' = clock + lag
           /\ qs_pc' = IF LoopContinues(clock + lag) THEN "if" ELSE "else"
    /\ checked' = FALSE
    /\ UNCHANGED <<pipeline_vars, up_attempts, issues, log_file, messages, exit_status>>

\* the minute is over: docker-compose up -d is run
RunUp ==
    /\ qs_pc = "if"
    /\ \E lag \in 0..MaxLag, took \in 0..MaxUpSeconds :
           /\ UpDue(clock + lag, up_attempts)
           /\ waited' = clock + lag
           /\ clock' = clock + lag + took
    /\ up_attempts' = up_attempts + 1
    /\ qs_pc' = "check"
    /\ UNCHANGED <<pipeline_vars, issues, checked, log_file, messages, exit_status>>

\* the minute is not over
SkipUp ==
    /\ qs_pc = "if"
    /\ \E lag \in 0..MaxLag :
           /\ ~UpDue(clock + lag, up_attempts)
           /\ waited' = clock + lag
           /\ clock' = clock + lag
    /\ qs_pc' = "check"
    /\ UNCHANGED <<pipeline_vars, up_attempts, issues, checked, log_file, messages,
                   exit_status>>

\* issues = check_local_docker_containers(), and the break
HealthCheck ==
    /\ qs_pc = "check"
    /\ \E found \in IssueLists, took \in 0..MaxCheckSeconds :
           /\ issues' = found
           /\ clock' = clock + took
           /\ qs_pc' = IF found = <<>> THEN "success" ELSE "sleep"
    /\ checked' = TRUE
    /\ UNCHANGED <<pipeline_vars, waited, up_attempts, log_file, messages, exit_status>>

\* time.sleep(sleep_interval.total_seconds())
Sleep ==
    /\ qs_pc = "sleep"
    /\ clock' = clock + sleep_interval
    /\ qs_pc' = "while"
    /\ UNCHANGED <<pipeline_vars, waited, up_attempts, issues, checked, log_file,
                   messages, exit_status>>

\* the else of the loop: the logs are written to the log file
DumpLogs ==
    /\ qs_pc = "else"
    /\ log_file' = <<"docker-compose logs">>
    /\ qs_pc' = "exit"
    /\ UNCHANGED <<pipeline_vars, clock, waited, up_attempts, issues, checked,
                   messages, exit_status>>

PrintIssuesAndExit ==
    /\ qs_pc = "exit"
    /\ messages' = messages \o print_issue_list_and_exit(issues, UnableHeader, LogsFooter).lines
    /\ exit_status' = <<print_issue_list_and_exit(issues, UnableHeader, LogsFooter).status>>
    /\ qs_pc' = "exited"
    /\ UNCHANGED <<pipeline_vars, clock, waited, up_attempts, issues, checked, log_file>>

\* the statements after the loop, and the return of the command
Succeed ==
    /\ qs_pc = "success"
    /\ messages' = Append(messages, SuccessMessage)
    /\ exit_status' = <<0>>
    /\ qs_pc' = "returned"
    /\ UNCHANGED <<pipeline_vars, clock, waited, up_attempts, issues, checked, log_file>>

InitQuickstart == InitWith({1}, {DAY}, {DefaultTopN})

NextQuickstart ==
    \/ WhileTest
    \/ RunUp
    \/ SkipUp
    \/ HealthCheck
    \/ Sleep
    \/ DumpLogs
    \/ PrintIssuesAndExit
    \/ Succeed

\* the command keeps running until it ends
SpecQuickstart ==
    InitQuickstart /\ [][NextQuickstart]_vars /\ WF_vars(NextQuickstart)

QuickstartEnded == qs_pc \in {"returned", "exited"}

\* the two ways the command ends
EndsInOneOfTwoWays ==
    /\ qs_pc = "returned" =>
           /\ messages = <<SuccessMessage>>
           /\ exit_status = <<0>>
           /\ log_file = <<>>
    /\ qs_pc = "exited" =>
           /\ messages = <<UnableHeader>> \o issues \o <<"", LogsFooter>>
           /\ exit_status = <<1>>
           /\ log_file # <<>>
           /\ issues # <<>>
           /\ waited >= max_wait_time
    /\ ~QuickstartEnded => messages = <<>> /\ exit_status = <<>>
    /\ (\E i \in 1..Len(messages) : messages[i] = SuccessMessage) => issues = <<>>
    /\ qs_pc \in {"sleep", "success", "returned"} => checked

\* docker-compose up -d runs only once the next minute has begun
UpOnlyWhenDue ==
    up_attempts' # up_attempts =>
        /\ up_attempts' = up_attempts + 1
        /\ waited' > up_attempts * up_interval
        /\ qs_pc' = "check"

====
